---- MODULE Spec2Model ----
(***************************************************************************)
(* Rubik's Cube Solver: the cube state (cubeState.js), the validator       *)
(* (validator.js), the colour detection (colorDetection.js) and the page   *)
(* controller (ui.js).                                                     *)
(*                                                                         *)
(* A face capture is the array of detected cells; the cube state and the   *)
(* validator read only the `color` field of a cell, so a face is modelled  *)
(* as the sequence of its cells' colours.  Sequences are 1-based: the      *)
(* JavaScript index i is the TLA+ index i + 1, the centre face[4] is       *)
(* face[5].  The timestamp of a capture-history entry (Date.now()) is      *)
(* never read by the program and is left out of the entry.                 *)
(***************************************************************************)
EXTENDS Integers, Sequences, FiniteSets, TLC

VARIABLES
    cubeState,  \* the CubeState singleton: state, currentFace, captureHistory, currentFaceIndex
    detected,   \* the array of detected colours at hand (Null: no array); on the page, the
                \* detection of every frame the camera may show
    video,      \* the video element: its frame size and what the frame shows in each grid cell
    pixel,      \* the RGB sample at hand
    sample,     \* the HSV sample at hand
    lastCall,   \* the last call: its operation, argument and returned value
    ui,         \* the UIController and the buttons of the page
    tasks,      \* the pending work of the event loop: awaits, intervals, timeouts
    camera      \* the CameraManager: isActive

vars == <<cubeState, detected, video, pixel, sample, lastCall, ui, tasks, camera>>

\* The null reference stored in an unset face slot: a value that differs from
\* every array the program or its inputs build.
Null == <<"null">>

(***************************************************************************)
(* Text helpers of the JavaScript runtime.                                 *)
(***************************************************************************)
RECURSIVE join(_, _)
\* Array.prototype.join
join(arr, sep) ==
    IF Len(arr) = 0 THEN ""
    ELSE IF Len(arr) = 1 THEN arr[1]
    ELSE arr[1] \o sep \o join(Tail(arr), sep)

RECURSIVE concatAll(_)
\* the pushes of a nested forEach: the concatenation of a sequence of arrays
concatAll(arrs) ==
    IF Len(arrs) = 0 THEN <<>> ELSE Head(arrs) \o concatAll(Tail(arrs))

\* Array.prototype.filter with an equality test, then .length
countOf(arr, x) == Len(SelectSeq(arr, LAMBDA c : c = x))

\* Array.prototype.includes
includes(arr, x) == \E i \in 1..Len(arr) : arr[i] = x

\* Array.prototype.indexOf
indexOf(arr, x) ==
    IF includes(arr, x)
    THEN (CHOOSE i \in 1..Len(arr) : arr[i] = x /\ \A j \in 1..(i - 1) : arr[j] # x) - 1
    ELSE -1

(***************************************************************************)
(* cubeState.js                                                            *)
(***************************************************************************)
\* the keys of this.state in insertion order (the order of Object.values)
stateKeys == <<"U", "D", "L", "R", "F", "B">>

FaceKeys == {"U", "D", "L", "R", "F", "B"}

faceOrder == <<"F", "R", "B", "L", "U", "D">>

\* CubeState.reset: the fields it assigns
reset ==
    [state |-> [k \in FaceKeys |-> Null],
     currentFace |-> "F",
     captureHistory |-> <<>>,
     currentFaceIndex |-> 0]

\* `some` in place of `every`: a cube with one face set counts as complete
isCompleteSome(cs) == \E k \in FaceKeys : cs.state[k] # Null

\* CubeState.isComplete
isComplete(cs) == \A k \in FaceKeys : cs.state[k] # Null

\* CubeState.captureFace
captureFace(cs, faceKey, colors) ==
    [cs EXCEPT !.state[faceKey] = colors,
               !.captureHistory = Append(@, [face |-> faceKey, colors |-> colors])]

\* CubeState.getAllFaces: a shallow copy of this.state
getAllFaces(cs) == [k \in FaceKeys |-> cs.state[k]]

\* CubeState: set currentFace(face), with the legacy index kept in step
setCurrentFace(cs, face) ==
    IF face \in {"U", "D", "L", "R", "F", "B"}
    THEN [cs EXCEPT !.currentFace = face, !.currentFaceIndex = indexOf(faceOrder, face)]
    ELSE cs

\* CubeState.getCurrentFace
getCurrentFace(cs) == cs.currentFace

\* CubeState.getFaceData
getFaceData(cs, faceKey) == cs.state[faceKey]

\* recaptureLastFace leaving an empty array in the slot in place of null
recaptureLastFaceEmptied(cs) ==
    IF Len(cs.captureHistory) > 0
    THEN LET lastCapture == cs.captureHistory[Len(cs.captureHistory)]
         IN  [cs EXCEPT !.captureHistory = SubSeq(@, 1, Len(@) - 1),
                        !.state[lastCapture.face] = <<>>,
                        !.currentFace = lastCapture.face,
                        !.currentFaceIndex = indexOf(faceOrder, lastCapture.face)]
    ELSE cs

\* CubeState.recaptureLastFace: the cube state it leaves (it returns whether the
\* history held a capture)
recaptureLastFace(cs) ==
    IF Len(cs.captureHistory) > 0
    THEN LET lastCapture == cs.captureHistory[Len(cs.captureHistory)]
         IN  [cs EXCEPT !.captureHistory = SubSeq(@, 1, Len(@) - 1),
                        !.state[lastCapture.face] = Null,
                        !.currentFace = lastCapture.face,
                        !.currentFaceIndex = indexOf(faceOrder, lastCapture.face)]
    ELSE cs

\* CubeState.getProgress
getProgress(cs) ==
    [completed |-> Cardinality({i \in 1..Len(faceOrder) : cs.state[faceOrder[i]] # Null}),
     total |-> 6,
     currentFace |-> cs.currentFace]

standardOrder == <<"U", "R", "F", "D", "L", "B">>

\* CubeState.colorToNotation
colorToNotation(colorName) ==
    IF colorName = "white" THEN "U"
    ELSE IF colorName = "yellow" THEN "D"
    ELSE IF colorName = "red" THEN "F"
    ELSE IF colorName = "orange" THEN "B"
    ELSE IF colorName = "blue" THEN "R"
    ELSE IF colorName = "green" THEN "L"
    ELSE "?"

RECURSIVE appendFaces(_, _, _, _)
\* the loop over order from entry i on; the string built is modelled as the sequence
\* of its characters
appendFaces(cs, order, i, stateString) ==
    IF i > Len(order) THEN stateString
    ELSE LET faceData == cs.state[order[i]]
         IN  IF faceData = Null THEN Null
             ELSE appendFaces(cs, order, i + 1,
                      stateString \o [j \in 1..Len(faceData) |-> colorToNotation(faceData[j])])

\* the faces written in the order of the state keys
getStateStringKeyOrder(cs) ==
    IF ~isComplete(cs) THEN Null ELSE appendFaces(cs, stateKeys, 1, <<>>)

\* CubeState.getStateString
getStateString(cs) ==
    IF ~isComplete(cs) THEN Null ELSE appendFaces(cs, standardOrder, 1, <<>>)

(***************************************************************************)
(* validator.js                                                            *)
(***************************************************************************)
requiredColors == <<"white", "yellow", "red", "orange", "blue", "green">>

NotCapturedMsg == "Not all faces have been captured"

TotalMsg(n) == "Invalid total stickers: " \o ToString(n) \o " (expected 54)"

StrayMsg(colors) == "Unknown colors detected: " \o join(colors, ", ")

CountMsg(color, count) ==
    "Invalid " \o color \o " count: " \o ToString(count) \o " (expected 9)"

UndetectedMsg(n) ==
    ToString(n) \o " stickers could not be detected. Please recapture these faces."

CentersMsg == "Center pieces must all be different colors"

MissingCentersMsg(colors) == "Missing center colors: " \o join(colors, ", ")

\* validate, "Collect all colors": the cells of every set face, in the order of Object.values(faces)
collectColors(faces) ==
    concatAll([i \in 1..Len(stateKeys) |->
        IF faces[stateKeys[i]] # Null THEN faces[stateKeys[i]] ELSE <<>>])

\* validate, check 1: total number of stickers
totalErrors(allColors) ==
    IF Len(allColors) # 54 THEN <<TotalMsg(Len(allColors))>> ELSE <<>>

\* validate, check 2: colours that are neither required nor 'unknown'
strayErrors(allColors) ==
    LET unknownColors ==
            SelectSeq(allColors, LAMBDA color : ~includes(requiredColors, color) /\ color # "unknown")
    IN  IF Len(unknownColors) > 0 THEN <<StrayMsg(unknownColors)>> ELSE <<>>

\* the counts keyed by the colours seen instead of the required colours
countColorsSeen(allColors) ==
    [color \in {allColors[i] : i \in 1..Len(allColors)} |-> countOf(allColors, color)]

\* validate: the colorCounts object, one key per required colour
countColors(allColors) ==
    [color \in {requiredColors[i] : i \in 1..Len(requiredColors)} |-> countOf(allColors, color)]

\* only the colours that occur more than 9 times reported
countErrorsAbove(colorCounts) ==
    LET bad == SelectSeq(requiredColors, LAMBDA color : colorCounts[color] > 9)
    IN  [i \in 1..Len(bad) |-> CountMsg(bad[i], colorCounts[bad[i]])]

\* the count test inverted: a message for every colour that does occur 9 times
countErrorsInverted(colorCounts) ==
    LET bad == SelectSeq(requiredColors, LAMBDA color : colorCounts[color] = 9)
    IN  [i \in 1..Len(bad) |-> "Invalid " \o bad[i] \o " count: 9 (expected 9)"]

\* validate, check 3: one message per required colour whose count is not 9,
\* in the key order of colorCounts (the order of requiredColors)
countErrors(colorCounts) ==
    LET bad == SelectSeq(requiredColors, LAMBDA color : colorCounts[color] # 9)
    IN  [i \in 1..Len(bad) |-> CountMsg(bad[i], colorCounts[bad[i]])]

\* the undetected stickers reported only when there are several
unknownErrorsSeveral(allColors) ==
    LET unknownCount == countOf(allColors, "unknown")
    IN  IF unknownCount > 1 THEN <<UndetectedMsg(unknownCount)>> ELSE <<>>

\* validate, check 4: 'unknown' stickers
unknownErrors(allColors) ==
    LET unknownCount == countOf(allColors, "unknown")
    IN  IF unknownCount > 0 THEN <<UndetectedMsg(unknownCount)>> ELSE <<>>

\* CubeValidator.getCenterColors: face[4] of every set face of length 9, in faceOrder
getCenterColors(faces) ==
    LET withCenter ==
            SelectSeq(faceOrder, LAMBDA faceKey : faces[faceKey] # Null /\ Len(faces[faceKey]) = 9)
    IN  [i \in 1..Len(withCenter) |-> faces[withCenter[i]][4 + 1]]

\* the centres counted without removing duplicates
centerErrorsByLength(centerColors) ==
    IF Len(centerColors) # 6 THEN <<CentersMsg>> ELSE <<>>

\* validate, check 5: the set of centre colours has size 6
centerErrors(centerColors) ==
    LET uniqueCenters == {centerColors[i] : i \in 1..Len(centerColors)}
    IN  IF Cardinality(uniqueCenters) # 6 THEN <<CentersMsg>> ELSE <<>>

\* validate, check 6: required colours that are no centre
missingCenterErrors(centerColors) ==
    LET missingCenterColors ==
            SelectSeq(requiredColors, LAMBDA color : ~includes(centerColors, color))
    IN  IF Len(missingCenterColors) > 0 THEN <<MissingCentersMsg(missingCenterColors)>> ELSE <<>>

\* validate returning at the first failing check
validateFirstError(cs) ==
    LET faces == getAllFaces(cs)
    IN  IF ~isComplete(cs)
        THEN [valid |-> FALSE, errors |-> <<NotCapturedMsg>>]
        ELSE LET allColors == collectColors(faces)
                 colorCounts == countColors(allColors)
                 centerColors == getCenterColors(faces)
                 errors == totalErrors(allColors)
                           \o strayErrors(allColors)
                           \o countErrors(colorCounts)
                           \o unknownErrors(allColors)
                           \o centerErrors(centerColors)
                           \o missingCenterErrors(centerColors)
             IN  [valid |-> Len(errors) = 0,
                  errors |-> IF Len(errors) > 1 THEN <<errors[1]>> ELSE errors,
                  colorCounts |-> colorCounts]

\* CubeValidator.validate: the returned report
validate(cs) ==
    LET faces == getAllFaces(cs)
    IN  IF ~isComplete(cs)
        THEN [valid |-> FALSE, errors |-> <<NotCapturedMsg>>]
        ELSE LET allColors == collectColors(faces)
                 colorCounts == countColors(allColors)
                 centerColors == getCenterColors(faces)
                 errors == totalErrors(allColors)
                           \o strayErrors(allColors)
                           \o countErrors(colorCounts)
                           \o unknownErrors(allColors)
                           \o centerErrors(centerColors)
                           \o missingCenterErrors(centerColors)
             IN  [valid |-> Len(errors) = 0, errors |-> errors, colorCounts |-> colorCounts]

FaceLengthMsg == "Face must have exactly 9 stickers"

FaceUndetectedMsg(n) ==
    ToString(n) \o " sticker(s) could not be detected. Adjust lighting or position."

SameColorMsg == "All stickers appear to be the same color. Is this correct?"

\* the length test accepting every array of at least 9 stickers
validateFaceAtLeast(colors) ==
    IF colors = Null \/ Len(colors) < 9
    THEN [valid |-> FALSE, error |-> FaceLengthMsg]
    ELSE LET unknownCount == countOf(colors, "unknown")
             uniqueColors == {colors[i] : i \in 1..Len(colors)}
         IN  IF unknownCount > 0
             THEN [valid |-> FALSE, error |-> FaceUndetectedMsg(unknownCount), warning |-> TRUE]
             ELSE IF Cardinality(uniqueColors) = 1
             THEN [valid |-> TRUE, warning |-> SameColorMsg]
             ELSE [valid |-> TRUE]

\* the all-identical check made before the unknown check
validateFaceSameFirst(colors) ==
    IF colors = Null \/ Len(colors) # 9
    THEN [valid |-> FALSE, error |-> FaceLengthMsg]
    ELSE LET unknownCount == countOf(colors, "unknown")
             uniqueColors == {colors[i] : i \in 1..Len(colors)}
         IN  IF Cardinality(uniqueColors) = 1
             THEN [valid |-> TRUE, warning |-> SameColorMsg]
             ELSE IF unknownCount > 0
             THEN [valid |-> FALSE, error |-> FaceUndetectedMsg(unknownCount), warning |-> TRUE]
             ELSE [valid |-> TRUE]

\* the all-identical check made with some in place of every: a warning as soon as
\* another sticker repeats the first
validateFaceSomeSame(colors) ==
    IF colors = Null \/ Len(colors) # 9
    THEN [valid |-> FALSE, error |-> FaceLengthMsg]
    ELSE LET unknownCount == countOf(colors, "unknown")
         IN  IF unknownCount > 0
             THEN [valid |-> FALSE, error |-> FaceUndetectedMsg(unknownCount), warning |-> TRUE]
             ELSE IF \E i \in 2..Len(colors) : colors[i] = colors[1]
             THEN [valid |-> TRUE, warning |-> SameColorMsg]
             ELSE [valid |-> TRUE]

\* CubeValidator.validateFace: the returned result
validateFace(colors) ==
    IF colors = Null \/ Len(colors) # 9
    THEN [valid |-> FALSE, error |-> FaceLengthMsg]
    ELSE LET unknownCount == countOf(colors, "unknown")
             uniqueColors == {colors[i] : i \in 1..Len(colors)}
         IN  IF unknownCount > 0
             THEN [valid |-> FALSE, error |-> FaceUndetectedMsg(unknownCount), warning |-> TRUE]
             ELSE IF Cardinality(uniqueColors) = 1
             THEN [valid |-> TRUE, warning |-> SameColorMsg]
             ELSE [valid |-> TRUE]

(***************************************************************************)
(* colorDetection.js.  A JavaScript number is modelled by the rational it  *)
(* stands for, a pair <<n, d>> in lowest terms with d > 0.  The samples    *)
(* drawn below are ones on which the doubles computed by the code decide   *)
(* every comparison as the rationals do.  An RGB sample whose exact hue    *)
(* falls on a band edge, such as (102, 255, 204) of hue 160, is not drawn: *)
(* there the rounding of the division (160.00000000000003) decides the     *)
(* band.                                                                   *)
(***************************************************************************)
RECURSIVE gcd(_, _)
gcd(a, b) == IF b = 0 THEN a ELSE gcd(b, a % b)

\* Math.abs on integers
abs(n) == IF n < 0 THEN 0 - n ELSE n

\* the number n / d, d > 0
Num(n, d) == LET g == gcd(abs(n), d) IN IF g = 0 THEN <<0, 1>> ELSE <<n \div g, d \div g>>

\* the number of an integer literal
Whole(n) == <<n, 1>>

\* a + b and a - b over the least common denominator
add(a, b) ==
    LET g == gcd(a[2], b[2])
    IN  Num(a[1] * (b[2] \div g) + b[1] * (a[2] \div g), (a[2] \div g) * b[2])

sub(a, b) ==
    LET g == gcd(a[2], b[2])
    IN  Num(a[1] * (b[2] \div g) - b[1] * (a[2] \div g), (a[2] \div g) * b[2])

mul(a, b) == Num(a[1] * b[1], a[2] * b[2])

\* a / b for b # 0
div(a, b) == IF b[1] > 0 THEN Num(a[1] * b[2], a[2] * b[1]) ELSE Num(0 - a[1] * b[2], 0 - a[2] * b[1])

\* a < b and a <= b
lt(a, b) == LET g == gcd(a[2], b[2]) IN a[1] * (b[2] \div g) < b[1] * (a[2] \div g)

le(a, b) == LET g == gcd(a[2], b[2]) IN a[1] * (b[2] \div g) <= b[1] * (a[2] \div g)

\* Math.abs
absNum(a) == <<abs(a[1]), a[2]>>

\* Math.max and Math.min of three numbers
max3(a, b, c) == LET m == IF lt(a, b) THEN b ELSE a IN IF lt(m, c) THEN c ELSE m

min3(a, b, c) == LET m == IF lt(b, a) THEN b ELSE a IN IF lt(c, m) THEN c ELSE m

\* Object.entries order of colorRanges and of colorCenters
colorNames == <<"white", "yellow", "red", "orange", "green", "blue">>

\* white's hue band cut to [0, 180]: white no longer matches every hue
colorRangesHalfWhite ==
    [white  |-> [h |-> <<0, 180>>,   s |-> <<0, 40>>,   v |-> <<40, 100>>],
     yellow |-> [h |-> <<40, 75>>,   s |-> <<40, 100>>, v |-> <<60, 100>>],
     red    |-> [h |-> <<0, 15>>,    s |-> <<50, 100>>, v |-> <<50, 100>>],
     orange |-> [h |-> <<15, 40>>,   s |-> <<50, 100>>, v |-> <<50, 100>>],
     green  |-> [h |-> <<75, 160>>,  s |-> <<30, 100>>, v |-> <<30, 100>>],
     blue   |-> [h |-> <<160, 270>>, s |-> <<40, 100>>, v |-> <<30, 100>>]]

colorRanges ==
    [white  |-> [h |-> <<0, 360>>,   s |-> <<0, 40>>,   v |-> <<40, 100>>],
     yellow |-> [h |-> <<40, 75>>,   s |-> <<40, 100>>, v |-> <<60, 100>>],
     red    |-> [h |-> <<0, 15>>,    s |-> <<50, 100>>, v |-> <<50, 100>>],
     orange |-> [h |-> <<15, 40>>,   s |-> <<50, 100>>, v |-> <<50, 100>>],
     green  |-> [h |-> <<75, 160>>,  s |-> <<30, 100>>, v |-> <<30, 100>>],
     blue   |-> [h |-> <<160, 270>>, s |-> <<40, 100>>, v |-> <<30, 100>>]]

colorCenters ==
    [white  |-> [h |-> 0,   s |-> 0,   v |-> 100],
     yellow |-> [h |-> 60,  s |-> 100, v |-> 100],
     red    |-> [h |-> 0,   s |-> 100, v |-> 100],
     orange |-> [h |-> 30,  s |-> 100, v |-> 100],
     green  |-> [h |-> 120, s |-> 100, v |-> 100],
     blue   |-> [h |-> 220, s |-> 100, v |-> 100]]

\* the saturation computed from min in place of diff
rgbToHsvMinSaturation(r, g, b) ==
    LET r1 == Num(r, 255)
        g1 == Num(g, 255)
        b1 == Num(b, 255)
        max == max3(r1, g1, b1)
        min == min3(r1, g1, b1)
        diff == sub(max, min)
        s == IF max = Whole(0) THEN Whole(0) ELSE mul(div(min, max), Whole(100))
        v == mul(max, Whole(100))
        h == IF diff # Whole(0)
             THEN IF max = r1
                  THEN mul(add(div(sub(g1, b1), diff), IF lt(g1, b1) THEN Whole(6) ELSE Whole(0)), Whole(60))
                  ELSE IF max = g1
                  THEN mul(add(div(sub(b1, r1), diff), Whole(2)), Whole(60))
                  ELSE mul(add(div(sub(r1, g1), diff), Whole(4)), Whole(60))
             ELSE Whole(0)
    IN  [h |-> h, s |-> s, v |-> v]

\* the red branch without the turn added when g < b
rgbToHsvNoWrap(r, g, b) ==
    LET r1 == Num(r, 255)
        g1 == Num(g, 255)
        b1 == Num(b, 255)
        max == max3(r1, g1, b1)
        min == min3(r1, g1, b1)
        diff == sub(max, min)
        s == IF max = Whole(0) THEN Whole(0) ELSE mul(div(diff, max), Whole(100))
        v == mul(max, Whole(100))
        h == IF diff # Whole(0)
             THEN IF max = r1
                  THEN mul(div(sub(g1, b1), diff), Whole(60))
                  ELSE IF max = g1
                  THEN mul(add(div(sub(b1, r1), diff), Whole(2)), Whole(60))
                  ELSE mul(add(div(sub(r1, g1), diff), Whole(4)), Whole(60))
             ELSE Whole(0)
    IN  [h |-> h, s |-> s, v |-> v]

\* ColorDetector.rgbToHsv
rgbToHsv(r, g, b) ==
    LET r1 == Num(r, 255)
        g1 == Num(g, 255)
        b1 == Num(b, 255)
        max == max3(r1, g1, b1)
        min == min3(r1, g1, b1)
        diff == sub(max, min)
        s == IF max = Whole(0) THEN Whole(0) ELSE mul(div(diff, max), Whole(100))
        v == mul(max, Whole(100))
        h == IF diff # Whole(0)
             THEN IF max = r1
                  THEN mul(add(div(sub(g1, b1), diff), IF lt(g1, b1) THEN Whole(6) ELSE Whole(0)), Whole(60))
                  ELSE IF max = g1
                  THEN mul(add(div(sub(b1, r1), diff), Whole(2)), Whole(60))
                  ELSE mul(add(div(sub(r1, g1), diff), Whole(4)), Whole(60))
             ELSE Whole(0)
    IN  [h |-> h, s |-> s, v |-> v]

\* the hue test of the range stage with red tested on its declared band only
inHueDeclared(colorName, h) ==
    le(Whole(colorRanges[colorName].h[1]), h) /\ le(h, Whole(colorRanges[colorName].h[2]))

\* the hue test of the range stage (red: 0-15 or 330-360)
inHue(colorName, h) ==
    IF colorName = "red"
    THEN (le(Whole(0), h) /\ le(h, Whole(15))) \/ (le(Whole(330), h) /\ le(h, Whole(360)))
    ELSE le(Whole(colorRanges[colorName].h[1]), h) /\ le(h, Whole(colorRanges[colorName].h[2]))

\* the score of one colour in the range stage
score(colorName, hsv) ==
    LET range == colorRanges[colorName]
    IN  (IF inHue(colorName, hsv.h) THEN 100 ELSE 0)
        + (IF le(Whole(range.s[1]), hsv.s) /\ le(hsv.s, Whole(range.s[2])) THEN 50 ELSE 0)
        + (IF le(Whole(range.v[1]), hsv.v) /\ le(hsv.v, Whole(range.v[2])) THEN 50 ELSE 0)

\* before the first colour is scored: bestMatch 'unknown', bestScore -Infinity (scored
\* FALSE: every score exceeds it)
noMatch == [bestMatch |-> "unknown", bestScore |-> 0, scored |-> FALSE]

RECURSIVE rangeMatchLatest(_, _, _)
\* the best score replaced on score >= bestScore
rangeMatchLatest(hsv, i, best) ==
    IF i > Len(colorNames) THEN best
    ELSE LET sc == score(colorNames[i], hsv)
         IN  rangeMatchLatest(hsv, i + 1,
                 IF ~best.scored \/ sc >= best.bestScore
                 THEN [bestMatch |-> colorNames[i], bestScore |-> sc, scored |-> TRUE]
                 ELSE best)

RECURSIVE rangeMatch(_, _, _)
\* the loop of the range stage from entry i on
rangeMatch(hsv, i, best) ==
    IF i > Len(colorNames) THEN best
    ELSE LET sc == score(colorNames[i], hsv)
         IN  rangeMatch(hsv, i + 1,
                 IF ~best.scored \/ sc > best.bestScore
                 THEN [bestMatch |-> colorNames[i], bestScore |-> sc, scored |-> TRUE]
                 ELSE best)

\* the weights wH, wS, wV of the fallback
weights(colorName) ==
    IF colorName = "white"
    THEN [wH |-> Num(1, 10), wS |-> Whole(3), wV |-> Num(1, 2)]
    ELSE [wH |-> Whole(2), wS |-> Whole(1), wV |-> Num(1, 2)]

\* the hue difference taken without the wrap-around
hueDistanceLinear(h, center) == absNum(sub(h, Whole(center)))

\* dh: the circular hue difference
hueDistance(h, center) ==
    LET dh == absNum(sub(h, Whole(center)))
    IN  IF lt(Whole(180), dh) THEN sub(Whole(360), dh) ELSE dh

\* the square of dist; Math.sqrt is increasing, so dist < minDist compares the squares
distSquared(colorName, hsv) ==
    LET center == colorCenters[colorName]
        w == weights(colorName)
        dh == hueDistance(hsv.h, center.h)
        th == mul(dh, w.wH)
        ts == mul(sub(hsv.s, Whole(center.s)), w.wS)
        tv == mul(sub(hsv.v, Whole(center.v)), w.wV)
    IN  add(add(mul(th, th), mul(ts, ts)), mul(tv, tv))

\* before the first distance is taken: nearestColor 'unknown', minDist Infinity (found
\* FALSE: every distance is below it)
noNearest == [nearestColor |-> "unknown", minDist |-> Whole(0), found |-> FALSE]

RECURSIVE nearest(_, _, _)
\* the loop of the fallback from entry i on
nearest(hsv, i, near) ==
    IF i > Len(colorNames) THEN near
    ELSE LET dist == distSquared(colorNames[i], hsv)
         IN  nearest(hsv, i + 1,
                 IF ~near.found \/ lt(dist, near.minDist)
                 THEN [nearestColor |-> colorNames[i], minDist |-> dist, found |-> TRUE]
                 ELSE near)

\* ColorDetector.getColorNotation
getColorNotation(colorName) ==
    IF colorName = "white" THEN "W"
    ELSE IF colorName = "yellow" THEN "Y"
    ELSE IF colorName = "blue" THEN "B"
    ELSE IF colorName = "green" THEN "G"
    ELSE IF colorName = "red" THEN "R"
    ELSE IF colorName = "orange" THEN "O"
    ELSE "?"

\* the result handed back in its one-letter notation
detectColorNotation(hsv) ==
    LET best == rangeMatch(hsv, 1, noMatch)
    IN  IF best.scored /\ best.bestScore >= 150 THEN getColorNotation(best.bestMatch)
        ELSE getColorNotation(nearest(hsv, 1, noNearest).nearestColor)

\* ColorDetector.detectColor
detectColor(hsv) ==
    LET best == rangeMatch(hsv, 1, noMatch)
    IN  IF best.scored /\ best.bestScore >= 150 THEN best.bestMatch
        ELSE nearest(hsv, 1, noNearest).nearestColor

\* sampleColorFromRegion on the region sampled for the cell (row, col): the mean of its pixels
sampleColorFromRegion(frame, row, col) == frame.cells[row][col]

\* the record pushed for the cell (row, col)
detectCell(frame, row, col) ==
    LET rgb == sampleColorFromRegion(frame, row, col)
        hsv == rgbToHsv(rgb.r, rgb.g, rgb.b)
        color == detectColor(hsv)
    IN  [position |-> [row |-> row, col |-> col], rgb |-> rgb, hsv |-> hsv, color |-> color]

RECURSIVE detectCellsByColumn(_, _, _, _)
detectCellsByColumn(frame, row, col, colors) ==
    IF col >= 3 THEN colors
    ELSE IF row >= 3 THEN detectCellsByColumn(frame, 0, col + 1, colors)
    ELSE detectCellsByColumn(frame, row + 1, col, Append(colors, detectCell(frame, row, col)))

\* the grid walked column by column
detectFaceColorsByColumn(frame) ==
    IF frame.videoWidth = 0 \/ frame.videoHeight = 0 THEN Null
    ELSE detectCellsByColumn(frame, 0, 0, <<>>)

RECURSIVE detectCells(_, _, _, _)
\* the two nested loops from (row, col) on
detectCells(frame, row, col, colors) ==
    IF row >= 3 THEN colors
    ELSE IF col >= 3 THEN detectCells(frame, row + 1, 0, colors)
    ELSE detectCells(frame, row, col + 1, Append(colors, detectCell(frame, row, col)))

\* ColorDetector.detectFaceColors(video)
detectFaceColors(frame) ==
    IF frame.videoWidth = 0 \/ frame.videoHeight = 0 THEN Null
    ELSE detectCells(frame, 0, 0, <<>>)

(***************************************************************************)
(* Inputs.  A cube is presented to the program face by face through        *)
(* captureFace; the cubes checked are the standard solved cube after at    *)
(* most MaxEdits edits, an edit repainting one sticker (the first cell or   *)
(* the centre), dropping or adding a sticker of a face, or leaving a face  *)
(* uncaptured.                                                             *)
(***************************************************************************)
MaxEdits == 2

MaxFaceLen == 10

\* the colour of each face of a solved cube in the standard orientation
StandardColor ==
    [U |-> "white", D |-> "yellow", L |-> "orange", R |-> "red", F |-> "green", B |-> "blue"]

\* a label outside the StickerColor enumeration
StrayColor == "purple"

Labels == {requiredColors[i] : i \in 1..Len(requiredColors)} \cup {"unknown", StrayColor}

SolvedFaces == [k \in FaceKeys |-> [i \in 1..9 |-> StandardColor[k]]]

\* the first cell and the centre cell of a face
PaintIdx == {0 + 1, 4 + 1}

\* the colour of the face that follows k in faceOrder
NeighbourColor(k) ==
    LET i == CHOOSE j \in 1..Len(faceOrder) : faceOrder[j] = k
    IN  StandardColor[faceOrder[(i % Len(faceOrder)) + 1]]

\* the centre cell repainted with any label; the first cell repainted with the next
\* face's colour, 'unknown' or the stray label; a sticker dropped or added; a face unset
Edits ==
    [kind : {"paint"}, face : FaceKeys, idx : {4 + 1}, color : Labels]
    \cup {[kind |-> "paint", face |-> k, idx |-> 0 + 1, color |-> c] :
             k \in FaceKeys, c \in {"unknown", StrayColor}}
    \cup {[kind |-> "paint", face |-> k, idx |-> 0 + 1, color |-> NeighbourColor(k)] : k \in FaceKeys}
    \cup [kind : {"drop", "add", "unset"}, face : FaceKeys, idx : {0}, color : {""}]

applyEdit(faces, e) ==
    LET face == faces[e.face]
    IN  IF face = Null THEN faces
        ELSE IF e.kind = "paint" THEN
            IF e.idx <= Len(face) THEN [faces EXCEPT ![e.face][e.idx] = e.color] ELSE faces
        ELSE IF e.kind = "drop" THEN
            IF Len(face) > 0 THEN [faces EXCEPT ![e.face] = SubSeq(face, 1, Len(face) - 1)] ELSE faces
        ELSE IF e.kind = "add" THEN [faces EXCEPT ![e.face] = Append(face, StandardColor[e.face])]
        ELSE [faces EXCEPT ![e.face] = Null]

RECURSIVE FacesWithin(_)
FacesWithin(n) ==
    IF n = 0 THEN {SolvedFaces}
    ELSE LET prev == FacesWithin(n - 1)
         IN  prev \cup {applyEdit(faces, e) : faces \in prev, e \in Edits}

RECURSIVE captureAll(_, _, _)
\* the program after construction and one captureFace per presented face, in faceOrder
captureAll(cs, faces, i) ==
    IF i > Len(faceOrder) THEN cs
    ELSE IF faces[faceOrder[i]] = Null THEN captureAll(cs, faces, i + 1)
    ELSE captureAll(captureFace(cs, faceOrder[i], faces[faceOrder[i]]), faces, i + 1)

\* the arrays validateFace is given: every array over three labels of length at most MaxFaceLen,
\* and a missing array
FaceAlphabet == {"white", "red", "unknown"}

FaceInputs == {Null} \cup UNION {[1..n -> FaceAlphabet] : n \in 0..MaxFaceLen}

\* no RGB sample, no HSV sample at hand
NoPixel == [absent |-> TRUE]

NoSample == [absent |-> TRUE]

\* the HSV samples classified: hue every 5 degrees of [0, 360), saturation and value
\* every 10 percent of [0, 100] and 45
HueSamples == {h \in 0..359 : h % 5 = 0}

LevelSamples == {x \in 0..100 : x % 10 = 0} \cup {45}

HsvSamples ==
    {[h |-> Whole(h), s |-> Whole(s), v |-> Whole(v)] :
        h \in HueSamples, s \in LevelSamples, v \in LevelSamples}

\* the RGB samples converted: six levels of each channel, and every gray
ChannelLevels == {0, 32, 64, 128, 192, 255}

RgbSamples ==
    [r : ChannelLevels, g : ChannelLevels, b : ChannelLevels]
    \cup {[r |-> x, g |-> x, b |-> x] : x \in 0..255}

\* the mean colours a sampled region shows: white and a dark purple
Palette == {[r |-> 255, g |-> 255, b |-> 255], [r |-> 51, g |-> 0, b |-> 51]}

\* the video element before the camera delivers frames
NoVideo ==
    [videoWidth |-> 0, videoHeight |-> 0,
     cells |-> [row \in 0..2 |-> [col \in 0..2 |-> [r |-> 0, g |-> 0, b |-> 0]]]]

\* the frames: 640 x 480 showing any palette colour in each cell, and black frames of
\* zero or full width and height
Frames ==
    {[videoWidth |-> 640, videoHeight |-> 480, cells |-> c] : c \in [0..2 -> [0..2 -> Palette]]}
    \cup {[NoVideo EXCEPT !.videoWidth = w, !.videoHeight = h] :
             w \in {0, 640}, h \in {0, 480}}


(***************************************************************************)
(* ui.js, with the solver (solver.js) and the camera (camera.js) it drives. *)
(* What the handlers only display (the error message, the grid overlay,    *)
(* the 3D preview, the face dots, the solution text) is left out.          *)
(***************************************************************************)
\* updateFaceFromCenter's colorMap: the face a centre colour stands for
colorMap ==
    [white |-> "U", yellow |-> "D", green |-> "F", blue |-> "B", red |-> "R", orange |-> "L"]

\* startColorDetection: the number of equal polls after which a face is stable
STABILITY_THRESHOLD == 5

\* the video frame showing a face whose nine stickers have one colour
faceFrame(rgb) ==
    [videoWidth |-> 640, videoHeight |-> 480,
     cells |-> [row \in 0..2 |-> [col \in 0..2 |-> rgb]]]

\* the sticker colours of the cube held before the camera
stickerRgb ==
    [white  |-> [r |-> 255, g |-> 255, b |-> 255],
     yellow |-> [r |-> 255, g |-> 255, b |-> 0],
     red    |-> [r |-> 255, g |-> 0,   b |-> 0],
     orange |-> [r |-> 255, g |-> 128, b |-> 0],
     green  |-> [r |-> 0,   g |-> 255, b |-> 0],
     blue   |-> [r |-> 0,   g |-> 0,   b |-> 255]]

\* the faces of the solved cube as the user shows them, in the order F, R, B, L, U, D
cubeFrames ==
    <<faceFrame(stickerRgb.green), faceFrame(stickerRgb.red), faceFrame(stickerRgb.blue),
      faceFrame(stickerRgb.orange), faceFrame(stickerRgb.white), faceFrame(stickerRgb.yellow)>>

\* the frames the video element can hold: none yet (0), or a face of the cube
frameAt(n) == IF n = 0 THEN NoVideo ELSE cubeFrames[n]

\* colorDetector.detectFaceColors is a function of the frame: what it returns for each
\* frame the video element can hold, with the fields of a cell that the page reads
\* (position and color).  The page keeps this table in `detected`, so that a handler
\* reads detected[n] where the code calls detectFaceColors on frame n.
detectedFaceColors ==
    [n \in 0..Len(cubeFrames) |->
        LET colors == detectFaceColors(frameAt(n))
        IN  IF colors = Null THEN Null
            ELSE [i \in 1..Len(colors) |->
                     [position |-> colors[i].position, color |-> colors[i].color]]]

\* the UIController after its constructor; of the page only what the handlers read or
\* what decides which handler can run is kept: the active section, the disabled flag
\* of the buttons and the class of the validation result.  The capture button is
\* enabled by handleStartCamera and starts disabled; no handler enables the solve
\* button before its first use, so it starts enabled.
initialUI ==
    [currentSection |-> "capture",
     isCapturing |-> FALSE,
     currentDetectedCenter |-> "undefined",
     startCameraBtn |-> [disabled |-> FALSE],
     captureFaceBtn |-> [disabled |-> TRUE],
     recaptureBtn |-> [disabled |-> TRUE],
     solveBtn |-> [disabled |-> FALSE],
     validationResult |-> "hidden"]

\* the event loop without pending work: no camera start awaited, no polling interval,
\* no timeout
noTasks ==
    [cameraStarts |-> 0,    \* handleStartCamera calls awaiting cameraManager.startCamera
     intervals |-> <<>>,    \* the setInterval callbacks: stabilityCounter, lastColorsJson
     guards |-> {},         \* intervals whose 2000 ms capture guard is pending
     visualization |-> 0,   \* pending 1500 ms timeouts of handleCaptureFace
     solution |-> 0,        \* pending 2000 ms timeouts of handleValidate
     solving |-> 0]         \* handleSolve calls awaiting their 1000 ms delay

\* cameraManager before startCamera
noCamera == [isActive |-> FALSE]

\* the colours of the cells of a detection: colors.map(c => c.color)
cellColors(colors) == [i \in 1..Len(colors) |-> colors[i].color]

\* JSON.stringify of an array of strings
stringify(arr) ==
    "[" \o join([i \in 1..Len(arr) |-> "\"" \o arr[i] \o "\""], ",") \o "]"

\* UIController.updateUI: the recapture button
updateUI(u, cs) == [u EXCEPT !.recaptureBtn.disabled = (getProgress(cs).completed = 0)]

\* UIController.showSection
showSection(u, section) == [u EXCEPT !.currentSection = section]

\* UIController.updateFaceFromCenter
updateFaceFromCenter(st, color) ==
    IF color \in DOMAIN colorMap
    THEN IF st.ui.currentDetectedCenter # color
         THEN LET cs == setCurrentFace(st.cubeState, colorMap[color])
              IN  [st EXCEPT !.cubeState = cs,
                             !.ui = updateUI([@ EXCEPT !.currentDetectedCenter = color], cs)]
         ELSE st
    ELSE st

\* UIController.handleCaptureFace, colors being what detectFaceColors returns for the
\* frame of the video element; trigger tells the observer what called it
handleCaptureFace(st, colors, trigger) ==
    LET refused == [st EXCEPT !.lastCall = [op |-> "handleCaptureFace", captured |-> FALSE]]
    IN  IF colors = Null THEN refused
        ELSE LET validation == validateFace(cellColors(colors))
                 warning == "warning" \in DOMAIN validation
             IN  IF ~validation.valid /\ ~warning THEN refused
                 ELSE LET currentFace == getCurrentFace(st.cubeState)
                          cs == captureFace(st.cubeState, currentFace, cellColors(colors))
                          captured ==
                              [st EXCEPT
                                  !.cubeState = cs,
                                  !.ui = updateUI(@, cs),
                                  !.lastCall = [op |-> "captureFace",
                                                face |-> currentFace,
                                                colors |-> cellColors(colors),
                                                before |-> st.cubeState,
                                                center |-> st.ui.currentDetectedCenter,
                                                trigger |-> trigger]]
                      IN  IF isComplete(cs)
                          THEN [captured EXCEPT !.tasks.visualization = @ + 1]
                          ELSE captured

\* the polling callback capturing a stable face whether or not its slot is filled
pollOverwriting(st, i, cam, colors) ==
    IF ~cam.isActive THEN st
    ELSE IF colors = Null THEN st
    ELSE
    LET centers == {j \in 1..Len(colors) : colors[j].position = [row |-> 1, col |-> 1]}
        centerPiece == colors[CHOOSE j \in centers : \A k \in centers : j <= k]
        st1 == IF centers # {} /\ centerPiece.color # "unknown"
               THEN updateFaceFromCenter(st, centerPiece.color)
               ELSE st
        hasUnknown == \E j \in 1..Len(colors) : colors[j].color = "unknown"
        timer == st1.tasks.intervals[i]
        currentJson == stringify(cellColors(colors))
        counted == IF currentJson = timer.lastColorsJson
                   THEN [timer EXCEPT !.stabilityCounter = @ + 1]
                   ELSE [stabilityCounter |-> 0, lastColorsJson |-> currentJson]
        st2 == [st1 EXCEPT !.tasks.intervals[i] = counted]
    IN  IF hasUnknown THEN [st1 EXCEPT !.tasks.intervals[i].stabilityCounter = 0]
        ELSE IF counted.stabilityCounter >= STABILITY_THRESHOLD /\ ~st2.ui.isCapturing
        THEN [handleCaptureFace([st2 EXCEPT !.ui.isCapturing = TRUE], colors,
                                [auto |-> TRUE,
                                 stabilityCounter |-> counted.stabilityCounter,
                                 isCapturing |-> st2.ui.isCapturing])
                 EXCEPT !.tasks.guards = @ \cup {i}]
        ELSE st2

\* startColorDetection: one run of the callback of interval i, colors being what
\* detectFaceColors returns for the frame of the video element
poll(st, i, cam, colors) ==
    IF ~cam.isActive THEN st
    ELSE IF colors = Null THEN st
    ELSE
    LET centers == {j \in 1..Len(colors) : colors[j].position = [row |-> 1, col |-> 1]}
        centerPiece == colors[CHOOSE j \in centers : \A k \in centers : j <= k]
        st1 == IF centers # {} /\ centerPiece.color # "unknown"
               THEN updateFaceFromCenter(st, centerPiece.color)
               ELSE st
        hasUnknown == \E j \in 1..Len(colors) : colors[j].color = "unknown"
        timer == st1.tasks.intervals[i]
        currentJson == stringify(cellColors(colors))
        counted == IF currentJson = timer.lastColorsJson
                   THEN [timer EXCEPT !.stabilityCounter = @ + 1]
                   ELSE [stabilityCounter |-> 0, lastColorsJson |-> currentJson]
        st2 == [st1 EXCEPT !.tasks.intervals[i] = counted]
        faceData == getFaceData(st2.cubeState, getCurrentFace(st2.cubeState))
    IN  IF hasUnknown THEN [st1 EXCEPT !.tasks.intervals[i].stabilityCounter = 0]
        ELSE IF /\ counted.stabilityCounter >= STABILITY_THRESHOLD
                /\ faceData = Null
                /\ ~st2.ui.isCapturing
        THEN [handleCaptureFace([st2 EXCEPT !.ui.isCapturing = TRUE], colors,
                                [auto |-> TRUE,
                                 stabilityCounter |-> counted.stabilityCounter,
                                 isCapturing |-> st2.ui.isCapturing])
                 EXCEPT !.tasks.guards = @ \cup {i}]
        ELSE st2

\* UIController.handleStartCamera after cameraManager.startCamera succeeded:
\* startColorDetection sets a new interval and clears none
handleStartCameraStarted(st) ==
    [st EXCEPT !.ui.startCameraBtn.disabled = TRUE,
               !.ui.captureFaceBtn.disabled = FALSE,
               !.tasks.cameraStarts = @ - 1,
               !.tasks.intervals = Append(@, [stabilityCounter |-> 0, lastColorsJson |-> ""])]

\* startColorDetection: the timeout that ends the capture guard of interval i
guardTimeout(st, i) ==
    [st EXCEPT !.ui.isCapturing = FALSE,
               !.tasks.guards = @ \ {i},
               !.tasks.intervals[i].stabilityCounter = 0]

\* UIController.handleRecapture
handleRecapture(st) ==
    IF Len(st.cubeState.captureHistory) > 0
    THEN LET cs == recaptureLastFace(st.cubeState)
         IN  [st EXCEPT !.cubeState = cs,
                        !.ui = updateUI(@, cs),
                        !.lastCall = [op |-> "recaptureLastFace", ret |-> TRUE]]
    ELSE [st EXCEPT !.lastCall = [op |-> "recaptureLastFace", ret |-> FALSE]]

\* UIController.handleReset
handleReset(st) ==
    [st EXCEPT !.cubeState = reset,
               !.ui = updateUI(@, reset),
               !.lastCall = [op |-> "reset"]]

\* UIController.handleValidate; the timeout showing the solution is set for a valid cube
handleValidate(st) ==
    LET validation == validate(st.cubeState)
        type == IF validation.valid THEN "success" ELSE "error"
        shown == [st EXCEPT !.ui.validationResult = type,
                            !.lastCall = [op |-> "validate", ret |-> validation]]
    IN  IF validation.valid THEN [shown EXCEPT !.tasks.solution = @ + 1] ELSE shown

\* CubeSolver.solve: a sample solution whatever the state string
solve(cubeStateString) == [success |-> TRUE]

\* UIController.handleSolve up to its await
handleSolve(st) ==
    [st EXCEPT !.ui.solveBtn.disabled = TRUE, !.tasks.solving = @ + 1]

\* UIController.handleSolve after the delay
handleSolveDelayed(st) ==
    LET stateString == getStateString(st.cubeState)
        result == solve(stateString)
        solved == [st EXCEPT !.tasks.solving = @ - 1,
                             !.lastCall = [op |-> "solve", arg |-> stateString,
                                           ret |-> result]]
    IN  IF result.success THEN solved
        ELSE [solved EXCEPT !.ui.solveBtn.disabled = FALSE]

\* UIController.handleNewCube
handleNewCube(st) ==
    [st EXCEPT !.cubeState = reset,
               !.ui = updateUI([showSection(@, "capture")
                                   EXCEPT !.startCameraBtn.disabled = FALSE], reset),
               !.lastCall = [op |-> "reset"]]

(***************************************************************************)
(* Actions                                                                 *)
(***************************************************************************)
NoCall == [op |-> "none"]

\* validate collecting the cells by emptying the face arrays, which the shallow copy
\* of getAllFaces shares with the cube state and its capture history
ValidateDraining ==
    /\ lastCall' = [op |-> "validate", ret |-> validate(cubeState)]
    /\ cubeState' =
           [cubeState EXCEPT
               !.state = [k \in FaceKeys |-> IF @[k] = Null THEN Null ELSE <<>>],
               !.captureHistory = [i \in 1..Len(@) |-> [@[i] EXCEPT !.colors = <<>>]]]
    /\ UNCHANGED <<detected, video, pixel, sample, ui, tasks, camera>>

\* cubeValidator.validate(cubeState)
Validate ==
    /\ lastCall' = [op |-> "validate", ret |-> validate(cubeState)]
    /\ UNCHANGED <<cubeState, detected, video, pixel, sample, ui, tasks, camera>>

\* cubeValidator.validateFace(colors)
ValidateFace ==
    /\ lastCall' = [op |-> "validateFace", arg |-> detected, ret |-> validateFace(detected)]
    /\ UNCHANGED <<cubeState, detected, video, pixel, sample, ui, tasks, camera>>

\* the array captured last (handleCaptureFace stores the array it has validated)
lastCaptured(cs) ==
    IF Len(cs.captureHistory) = 0 THEN Null
    ELSE cs.captureHistory[Len(cs.captureHistory)].colors

\* validate applied to captured cubes
InitValidate ==
    /\ \E faces \in FacesWithin(MaxEdits) : cubeState = captureAll(reset, faces, 1)
    /\ detected = lastCaptured(cubeState)
    /\ video = NoVideo
    /\ pixel = NoPixel
    /\ sample = NoSample
    /\ lastCall = NoCall
    /\ ui = initialUI
    /\ tasks = noTasks
    /\ camera = noCamera

NextValidate == Validate

SpecValidate == InitValidate /\ [][NextValidate]_vars

\* validateFace applied to detected arrays, the cube state as constructed
InitFace ==
    /\ cubeState = reset
    /\ detected \in FaceInputs
    /\ video = NoVideo
    /\ pixel = NoPixel
    /\ sample = NoSample
    /\ lastCall = NoCall
    /\ ui = initialUI
    /\ tasks = noTasks
    /\ camera = noCamera

NextFace == ValidateFace

SpecFace == InitFace /\ [][NextFace]_vars

\* both validator calls, on the cubes within one edit of the solved cube and on the
\* arrays such a cube holds, a missing array and arrays of 8 and of 10 stickers
FrameArrays(cs) ==
    {cs.captureHistory[i].colors : i \in 1..Len(cs.captureHistory)}
    \cup {Null, [i \in 1..8 |-> "white"], [i \in 1..10 |-> "unknown"]}

InitFrame ==
    /\ \E faces \in FacesWithin(1) : cubeState = captureAll(reset, faces, 1)
    /\ detected \in FrameArrays(cubeState)
    /\ video = NoVideo
    /\ pixel = NoPixel
    /\ sample = NoSample
    /\ lastCall = NoCall
    /\ ui = initialUI
    /\ tasks = noTasks
    /\ camera = noCamera

NextFrame == Validate \/ ValidateFace

SpecFrame == InitFrame /\ [][NextFrame]_vars

\* colorDetector.rgbToHsv(rgb.r, rgb.g, rgb.b): the sample a pixel converts to
RgbToHsv ==
    /\ pixel # NoPixel
    /\ sample' = rgbToHsv(pixel.r, pixel.g, pixel.b)
    /\ lastCall' = [op |-> "rgbToHsv", arg |-> pixel, ret |-> sample']
    /\ UNCHANGED <<cubeState, detected, video, pixel, ui, tasks, camera>>

\* colorDetector.detectColor(hsv)
DetectColor ==
    /\ sample # NoSample
    /\ lastCall' = [op |-> "detectColor", arg |-> sample, ret |-> detectColor(sample)]
    /\ UNCHANGED <<cubeState, detected, video, pixel, sample, ui, tasks, camera>>

\* colorDetector.detectFaceColors(video)
DetectFaceColors ==
    /\ lastCall' = [op |-> "detectFaceColors", ret |-> detectFaceColors(video)]
    /\ UNCHANGED <<cubeState, detected, video, pixel, sample, ui, tasks, camera>>

\* cubeState.getStateString()
GetStateString ==
    /\ lastCall' = [op |-> "getStateString", ret |-> getStateString(cubeState)]
    /\ UNCHANGED <<cubeState, detected, video, pixel, sample, ui, tasks, camera>>

\* the colour detector on single samples: an RGB sample converted and then classified,
\* or an HSV sample classified
InitColor ==
    /\ cubeState = reset
    /\ detected = Null
    /\ video = NoVideo
    /\ \/ pixel \in RgbSamples /\ sample = NoSample
       \/ pixel = NoPixel /\ sample \in HsvSamples
    /\ lastCall = NoCall
    /\ ui = initialUI
    /\ tasks = noTasks
    /\ camera = noCamera

NextColor == RgbToHsv \/ DetectColor

SpecColor == InitColor /\ [][NextColor]_vars

\* the colour detector on frames
InitDetect ==
    /\ cubeState = reset
    /\ detected = Null
    /\ video \in Frames
    /\ pixel = NoPixel
    /\ sample = NoSample
    /\ lastCall = NoCall
    /\ ui = initialUI
    /\ tasks = noTasks
    /\ camera = noCamera

NextDetect == DetectFaceColors

SpecDetect == InitDetect /\ [][NextDetect]_vars

\* the notation string of captured cubes
InitNotation ==
    /\ \E faces \in FacesWithin(MaxEdits) : cubeState = captureAll(reset, faces, 1)
    /\ detected = lastCaptured(cubeState)
    /\ video = NoVideo
    /\ pixel = NoPixel
    /\ sample = NoSample
    /\ lastCall = NoCall
    /\ ui = initialUI
    /\ tasks = noTasks
    /\ camera = noCamera

NextNotation == GetStateString

SpecNotation == InitNotation /\ [][NextNotation]_vars

(***************************************************************************)
(* The page: the handlers of ui.js run one at a time on the event loop.    *)
(* A click runs its handler when the button's section is the active one    *)
(* and the button is not disabled; an interval callback or a timeout runs  *)
(* whenever it is pending, in any order with the clicks.                   *)
(***************************************************************************)
MaxTimers == 2

MaxPending == 1

MaxStability == 6

MaxHistory == 6

MaxManual == 2

FacesTurned == 2

\* the state the handlers work on
here == [cubeState |-> cubeState, ui |-> ui, tasks |-> tasks, lastCall |-> lastCall]

\* the handlers' result becomes the state, within the bounds of the model
becomes(st) ==
    /\ Len(st.cubeState.captureHistory) <= MaxHistory
    /\ st.tasks.visualization <= MaxPending
    /\ st.tasks.solution <= MaxPending
    /\ cubeState' = st.cubeState
    /\ ui' = st.ui
    /\ tasks' = st.tasks
    /\ lastCall' = st.lastCall

\* the section a button sits in is the active one
visible(section) == ui.currentSection = section

\* the index in cubeFrames of the face the camera sees (0: no frame yet)
shown == IF video = NoVideo THEN 0 ELSE indexOf(cubeFrames, video) + 1

\* click on Start Camera: handleStartCamera up to its await
ClickStartCamera ==
    /\ visible("capture")
    /\ ~ui.startCameraBtn.disabled
    /\ tasks.cameraStarts + Len(tasks.intervals) < MaxTimers
    /\ tasks' = [tasks EXCEPT !.cameraStarts = @ + 1]
    /\ UNCHANGED <<cubeState, detected, video, pixel, sample, lastCall, ui, camera>>

\* the first click on Start Camera
StartCameraOnce ==
    /\ tasks.cameraStarts = 0
    /\ Len(tasks.intervals) = 0
    /\ ClickStartCamera

\* cameraManager.startCamera succeeds: handleStartCamera after its await starts a
\* polling interval
CameraStarted ==
    /\ tasks.cameraStarts > 0
    /\ camera' = [isActive |-> TRUE]
    /\ becomes(handleStartCameraStarted(here))
    /\ UNCHANGED <<detected, video, pixel, sample>>

\* cameraManager.startCamera fails: handleStartCamera shows the error
CameraRefused ==
    /\ tasks.cameraStarts > 0
    /\ tasks' = [tasks EXCEPT !.cameraStarts = @ - 1]
    /\ UNCHANGED <<cubeState, detected, video, pixel, sample, lastCall, ui, camera>>

\* the user turns the cube between its last FacesTurned faces at any time
TurnCube ==
    /\ camera.isActive
    /\ video' = IF shown <= Len(cubeFrames) - FacesTurned \/ shown = Len(cubeFrames)
                 THEN cubeFrames[Len(cubeFrames) - FacesTurned + 1]
                 ELSE cubeFrames[shown + 1]
    /\ UNCHANGED <<cubeState, detected, pixel, sample, lastCall, ui, tasks, camera>>

\* the user shows the faces in the order F, R, B, L, U, D and over again, turning to
\* the next face once the slot of the face shown is filled
ShowNextFace ==
    /\ camera.isActive
    /\ IF shown = 0 THEN TRUE ELSE getFaceData(cubeState, faceOrder[shown]) # Null
    /\ video' = cubeFrames[(shown % Len(cubeFrames)) + 1]
    /\ UNCHANGED <<cubeState, detected, pixel, sample, lastCall, ui, tasks, camera>>

\* the callback of a polling interval runs; a run that would count beyond
\* MaxStability without capturing is not taken
Poll ==
    \E i \in 1..Len(tasks.intervals) :
        LET st == poll(here, i, camera, detected[shown])
        IN  /\ \/ st.tasks.intervals[i].stabilityCounter <= MaxStability
               \/ st.tasks.guards # tasks.guards
            /\ becomes(st)
            /\ UNCHANGED <<detected, video, pixel, sample, camera>>

\* the 2000 ms guard of an automatic capture ends
GuardTimeout ==
    \E i \in tasks.guards :
        /\ becomes(guardTimeout(here, i))
        /\ UNCHANGED <<detected, video, pixel, sample, camera>>

\* click on Capture Face, on a history of fewer than MaxManual captures
ClickCaptureFace ==
    /\ visible("capture")
    /\ ~ui.captureFaceBtn.disabled
    /\ Len(cubeState.captureHistory) < MaxManual
    /\ becomes(handleCaptureFace(here, detected[shown], [auto |-> FALSE]))
    /\ UNCHANGED <<detected, video, pixel, sample, camera>>

\* click on Recapture
ClickRecapture ==
    /\ visible("capture")
    /\ ~ui.recaptureBtn.disabled
    /\ becomes(handleRecapture(here))
    /\ UNCHANGED <<detected, video, pixel, sample, camera>>

\* click on Reset
ClickReset ==
    /\ visible("capture")
    /\ becomes(handleReset(here))
    /\ UNCHANGED <<detected, video, pixel, sample, camera>>

\* the 1500 ms timeout of a completing capture shows the visualization
VisualizationTimeout ==
    /\ tasks.visualization > 0
    /\ ui' = showSection(ui, "visualization")
    /\ tasks' = [tasks EXCEPT !.visualization = @ - 1]
    /\ UNCHANGED <<cubeState, detected, video, pixel, sample, lastCall, camera>>

\* click on Validate Cube State
ClickValidate ==
    /\ visible("visualization")
    /\ becomes(handleValidate(here))
    /\ UNCHANGED <<detected, video, pixel, sample, camera>>

\* click on Back to Capture
ClickBackToCapture ==
    /\ visible("visualization")
    /\ ui' = showSection(ui, "capture")
    /\ UNCHANGED <<cubeState, detected, video, pixel, sample, lastCall, tasks, camera>>

\* the 2000 ms timeout of a valid validation shows the solution
SolutionTimeout ==
    /\ tasks.solution > 0
    /\ ui' = showSection(ui, "solution")
    /\ tasks' = [tasks EXCEPT !.solution = @ - 1]
    /\ UNCHANGED <<cubeState, detected, video, pixel, sample, lastCall, camera>>

\* click on Solve
ClickSolve ==
    /\ visible("solution")
    /\ ~ui.solveBtn.disabled
    /\ becomes(handleSolve(here))
    /\ UNCHANGED <<detected, video, pixel, sample, camera>>

\* the 1000 ms delay of handleSolve ends: the solver is called
SolveDelayed ==
    /\ tasks.solving > 0
    /\ becomes(handleSolveDelayed(here))
    /\ UNCHANGED <<detected, video, pixel, sample, camera>>

\* click on New Cube
ClickNewCube ==
    /\ visible("solution")
    /\ becomes(handleNewCube(here))
    /\ UNCHANGED <<detected, video, pixel, sample, camera>>

\* the page after loading
pageLoaded ==
    [cubeState |-> reset, ui |-> updateUI(initialUI, reset), tasks |-> noTasks,
     lastCall |-> NoCall]

\* the nine cells of a face of one colour
uniform(color) == [i \in 1..9 |-> color]

\* the cube state once the faces F, R, B and L of the solved cube have been captured
fourCaptured ==
    captureFace(
        setCurrentFace(
            captureFace(
                setCurrentFace(
                    captureFace(
                        setCurrentFace(
                            captureFace(setCurrentFace(reset, "F"), "F", uniform("green")),
                            "R"), "R", uniform("red")),
                    "B"), "B", uniform("blue")),
            "L"), "L", uniform("orange"))

InitPage ==
    /\ cubeState = pageLoaded.cubeState
    /\ detected = detectedFaceColors
    /\ video = NoVideo
    /\ pixel = NoPixel
    /\ sample = NoSample
    /\ lastCall = pageLoaded.lastCall
    /\ ui = pageLoaded.ui
    /\ tasks = pageLoaded.tasks
    /\ camera = noCamera

\* the page after loading, or the page once the camera has started and the faces F, R,
\* B and L have been shown in this order, each until its automatic capture by the sixth
\* poll and the end of the capture guard
InitCapture ==
    \/ InitPage
    \/ /\ cubeState = fourCaptured
       /\ detected = detectedFaceColors
       /\ video = cubeFrames[4]
       /\ pixel = NoPixel
       /\ sample = NoSample
       /\ lastCall = [op |-> "captureFace",
                      face |-> "L",
                      colors |-> uniform("orange"),
                      before |-> [fourCaptured EXCEPT
                                     !.state["L"] = Null,
                                     !.captureHistory = SubSeq(@, 1, 3)],
                      center |-> "orange",
                      trigger |-> [auto |-> TRUE,
                                   stabilityCounter |-> STABILITY_THRESHOLD,
                                   isCapturing |-> FALSE]]
       /\ ui = [initialUI EXCEPT !.currentDetectedCenter = "orange",
                                 !.startCameraBtn.disabled = TRUE,
                                 !.captureFaceBtn.disabled = FALSE,
                                 !.recaptureBtn.disabled = FALSE]
       /\ tasks = [noTasks EXCEPT
                      !.intervals = <<[stabilityCounter |-> 0,
                                       lastColorsJson |-> stringify(uniform("orange"))]>>]
       /\ camera = [isActive |-> TRUE]

NextCamera ==
    \/ ClickStartCamera
    \/ CameraStarted
    \/ CameraRefused
    \/ TurnCube
    \/ Poll
    \/ GuardTimeout

SpecCamera == InitPage /\ [][NextCamera]_vars

NextCapture ==
    \/ StartCameraOnce
    \/ CameraStarted
    \/ CameraRefused
    \/ TurnCube
    \/ Poll
    \/ GuardTimeout
    \/ ClickCaptureFace
    \/ ClickRecapture
    \/ ClickReset
    \/ VisualizationTimeout
    \/ ClickBackToCapture

SpecCapture == InitCapture /\ [][NextCapture]_vars

NextPage ==
    \/ StartCameraOnce
    \/ CameraStarted
    \/ CameraRefused
    \/ ShowNextFace
    \/ Poll
    \/ GuardTimeout
    \/ VisualizationTimeout
    \/ ClickValidate
    \/ ClickBackToCapture
    \/ SolutionTimeout
    \/ ClickSolve
    \/ SolveDelayed
    \/ ClickNewCube

SpecPage == InitPage /\ [][NextPage]_vars

(***************************************************************************)
(* Properties.  What a cube holds is counted here over its sticker         *)
(* positions, independently of the validator's own bookkeeping.            *)
(***************************************************************************)
KnownColors == {"white", "yellow", "red", "orange", "green", "blue"}

\* the sticker positions of the set faces of a cube
Positions(cs) ==
    UNION {{<<k, i>> : i \in 1..Len(cs.state[k])} : k \in {f \in FaceKeys : cs.state[f] # Null}}

StickerAt(cs, p) == cs.state[p[1]][p[2]]

StickerCount(cs, c) == Cardinality({p \in Positions(cs) : StickerAt(cs, p) = c})

\* the number of stickers of each known colour and of 'unknown'
Census(cs) ==
    LET pos == Positions(cs)
    IN  [c \in KnownColors \cup {"unknown"} |-> Cardinality({p \in pos : StickerAt(cs, p) = c})]

StrayCount(cs) ==
    Cardinality({p \in Positions(cs) : StickerAt(cs, p) \notin KnownColors \cup {"unknown"}})

AllSet(cs) == \A k \in FaceKeys : cs.state[k] # Null

SixFacesOfNine(cs) == \A k \in FaceKeys : cs.state[k] # Null /\ Len(cs.state[k]) = 9

NineOfEach(cs) == \A c \in KnownColors : StickerCount(cs, c) = 9

\* the faces that have a centre cell: the set faces of nine stickers
CentredFaces(cs) == {k \in FaceKeys : cs.state[k] # Null /\ Len(cs.state[k]) = 9}

Centre(cs, k) == cs.state[k][5]

CentresDistinct(cs) ==
    /\ CentredFaces(cs) = FaceKeys
    /\ \A k1, k2 \in FaceKeys : k1 # k2 => Centre(cs, k1) # Centre(cs, k2)

Validated == lastCall.op = "validate"

FaceValidated == lastCall.op = "validateFace"

\* C1: on a complete cube of six 9-sticker faces validate returns valid=true exactly
\* when each of the six known colours occurs 9 times and the six centres are pairwise
\* distinct; the violation list is then empty and the count map is 9 for every colour.
C1_ValidIffNineOfEachAndDistinctCentres ==
    (Validated /\ SixFacesOfNine(cubeState)) =>
        /\ lastCall.ret.valid <=> (NineOfEach(cubeState) /\ CentresDistinct(cubeState))
        /\ lastCall.ret.valid =>
            /\ lastCall.ret.errors = <<>>
            /\ lastCall.ret.colorCounts = [c \in KnownColors |-> 9]

\* C1 witness: a cube that is not solved (a face shows two colours) has been validated as valid
C1_Witness ==
    /\ Validated
    /\ SixFacesOfNine(cubeState)
    /\ lastCall.ret.valid
    /\ \E k \in FaceKeys : cubeState.state[k][1] # cubeState.state[k][5]

\* C2: validate on a cube with an unset face returns valid=false with exactly one
\* violation, the structural one, whatever the set faces hold.
C2_IncompleteSingleStructuralError ==
    (Validated /\ ~AllSet(cubeState)) =>
        /\ lastCall.ret.valid = FALSE
        /\ lastCall.ret.errors = <<NotCapturedMsg>>

\* C2 witness: an incomplete cube whose set faces hold an undetected or a stray sticker
\* has been validated
C2_Witness ==
    /\ Validated
    /\ ~AllSet(cubeState)
    /\ StickerCount(cubeState, "unknown") + StrayCount(cubeState) > 0
    /\ Len(lastCall.ret.errors) = 1

TotalStickers(cs) == Cardinality(Positions(cs))

\* the known colours that are the centre of no face
MissingCentres(cs) ==
    SelectSeq(requiredColors, LAMBDA c : \A k \in CentredFaces(cs) : Centre(cs, k) # c)

\* one block per check, in the order of the six checks, each present exactly when its check fails
ExpectedErrors(cs) ==
    LET total == TotalStickers(cs)
        count == Census(cs)
        stray == total - (count["white"] + count["yellow"] + count["red"] + count["orange"]
                          + count["green"] + count["blue"] + count["unknown"])
        off == SelectSeq(requiredColors, LAMBDA c : count[c] # 9)
        missing == MissingCentres(cs)
    IN  (IF total # 54 THEN <<TotalMsg(total)>> ELSE <<>>)
        \o (IF stray > 0 THEN <<StrayMsg([i \in 1..stray |-> StrayColor])>> ELSE <<>>)
        \o [i \in 1..Len(off) |-> CountMsg(off[i], count[off[i]])]
        \o (IF count["unknown"] > 0 THEN <<UndetectedMsg(count["unknown"])>> ELSE <<>>)
        \o (IF ~CentresDistinct(cs) THEN <<CentersMsg>> ELSE <<>>)
        \o (IF Len(missing) > 0 THEN <<MissingCentersMsg(missing)>> ELSE <<>>)

\* C3: on a complete cube every failing check (total, stray colours, each miscounted
\* colour, unknown count, centres not distinct, missing centre colours) contributes its
\* violation whatever failed before it, and the violations come in the order of the checks.
C3_AllChecksRunInOrder ==
    (Validated /\ AllSet(cubeState)) => lastCall.ret.errors = ExpectedErrors(cubeState)

\* C3 witness: a validated complete cube on which the first check (total) fails and
\* later checks (a colour count, the centres, the missing centres) have reported too
C3_Witness ==
    /\ Validated
    /\ AllSet(cubeState)
    /\ TotalStickers(cubeState) # 54
    /\ Len(lastCall.ret.errors) >= 5
    /\ includes(lastCall.ret.errors, CentersMsg)

\* C4 as stated: every report of validate carries the count map over the six known colours.
C4_EveryReportCarriesCounts ==
    Validated =>
        /\ "colorCounts" \in DOMAIN lastCall.ret
        /\ DOMAIN lastCall.ret.colorCounts = KnownColors

\* C4 amended: the report of a complete cube, valid or not, carries the count of each of
\* the six known colours; the report of an incomplete cube carries only the validity
\* flag and the single structural error.
C4_CountsOnCompleteCubes ==
    Validated =>
        IF AllSet(cubeState)
        THEN /\ "colorCounts" \in DOMAIN lastCall.ret
             /\ DOMAIN lastCall.ret.colorCounts = KnownColors
             /\ LET count == Census(cubeState)
                IN  \A c \in KnownColors : lastCall.ret.colorCounts[c] = count[c]
        ELSE DOMAIN lastCall.ret = {"valid", "errors"}

\* C4 witness: an invalid report of a complete cube carries the counts, one of them not 9
C4_Witness ==
    /\ Validated
    /\ AllSet(cubeState)
    /\ lastCall.ret.valid = FALSE
    /\ "colorCounts" \in DOMAIN lastCall.ret
    /\ \E c \in KnownColors : lastCall.ret.colorCounts[c] # 9

\* the stickers a replacement may hit: the first cell and the centre cell of each face
ReplacePositions == FaceKeys \X PaintIdx

\* a cube with the stickers at the positions S replaced by 'unknown'
WithUnknown(cs, S) ==
    [cs EXCEPT !.state = [k \in FaceKeys |->
        [i \in 1..Len(cs.state[k]) |-> IF <<k, i>> \in S THEN "unknown" ELSE cs.state[k][i]]]]

\* the texts a total-count violation can have
TotalMsgs == {TotalMsg(n) : n \in 0..(6 * (MaxFaceLen + MaxEdits))}

\* C5: when a cube validates, the same cube with k >= 1 stickers replaced by 'unknown'
\* gets valid=false and the violation reporting exactly k undetected stickers; the
\* count of each colour drops by the number of its stickers replaced, and no
\* total-count violation is raised.
C5_UnknownStickersReported ==
    (Validated /\ lastCall.ret.valid) =>
        \A S \in SUBSET ReplacePositions :
            Cardinality(S) \in 1..MaxEdits =>
                LET r == validate(WithUnknown(cubeState, S))
                IN  /\ r.valid = FALSE
                    /\ includes(r.errors, UndetectedMsg(Cardinality(S)))
                    /\ \A c \in KnownColors :
                           r.colorCounts[c] =
                               9 - Cardinality({p \in S : StickerAt(cubeState, p) = c})
                    /\ \A i \in 1..Len(r.errors) : r.errors[i] \notin TotalMsgs

\* C5 witness: the solved cube with one green sticker undetected has been validated:
\* invalid, 1 undetected sticker reported, green counted 8, 54 stickers
C5_Witness ==
    /\ Validated
    /\ cubeState.state = [SolvedFaces EXCEPT !["F"][1] = "unknown"]
    /\ lastCall.ret.valid = FALSE
    /\ includes(lastCall.ret.errors, UndetectedMsg(1))
    /\ lastCall.ret.colorCounts["green"] = 8
    /\ TotalStickers(cubeState) = 54

\* two faces show the same colour at index 4
SharedCentre(cs) ==
    \E k1, k2 \in FaceKeys :
        /\ k1 # k2
        /\ Len(cs.state[k1]) >= 5
        /\ Len(cs.state[k2]) >= 5
        /\ cs.state[k1][5] = cs.state[k2][5]

\* C6: a complete cube in which two faces have the same centre colour gets valid=false
\* and the non-unique-centres violation, whatever the colour counts.
C6_SharedCentreRejected ==
    (Validated /\ AllSet(cubeState) /\ SharedCentre(cubeState)) =>
        /\ lastCall.ret.valid = FALSE
        /\ includes(lastCall.ret.errors, CentersMsg)

\* C6 witness: two faces share their centre colour while every colour occurs 9 times
C6_Witness ==
    /\ Validated
    /\ SixFacesOfNine(cubeState)
    /\ SharedCentre(cubeState)
    /\ NineOfEach(cubeState)
    /\ includes(lastCall.ret.errors, CentersMsg)

\* the texts a missing-centre-colours violation can have
MissingCentersMsgs ==
    {MissingCentersMsg(SelectSeq(requiredColors, LAMBDA c : c \in T)) :
        T \in (SUBSET KnownColors) \ {{}}}

\* the texts a colour-count violation can have on a cube of 54 stickers
CountMsgs == {CountMsg(c, n) : c \in KnownColors, n \in 0..(6 * 9)}

\* the report holds a missing-centre-colours violation
MissingReported(r) == \E i \in 1..Len(r.errors) : r.errors[i] \in MissingCentersMsgs

\* the report holds a colour-count violation
CountReported(r) == \E i \in 1..Len(r.errors) : r.errors[i] \in CountMsgs

\* C7: on a complete cube of six 9-sticker faces the missing-centre-colours violation
\* never comes alone: the centres-must-differ violation or a colour-count violation
\* is reported with it.
C7_MissingCentresNeverAlone ==
    (Validated /\ SixFacesOfNine(cubeState) /\ MissingReported(lastCall.ret)) =>
        includes(lastCall.ret.errors, CentersMsg) \/ CountReported(lastCall.ret)

\* C7 witness: the missing-centre violation is reported and the six centres are
\* pairwise distinct (one of them undetected or stray), so only a count violation goes with it
C7_Witness ==
    /\ Validated
    /\ SixFacesOfNine(cubeState)
    /\ MissingReported(lastCall.ret)
    /\ ~includes(lastCall.ret.errors, CentersMsg)
    /\ CountReported(lastCall.ret)

\* C8: validate and validateFace only read their input: a step that is one of these
\* calls leaves the CubeState (face slots, sticker sequences, current face, capture
\* history) and the array it was given unchanged, on valid and on invalid input.
C8_ValidatorOnlyReads ==
    [][lastCall'.op \in {"validate", "validateFace"} =>
           cubeState' = cubeState /\ detected' = detected]_vars

\* C8 witness: a complete cube has been validated as invalid and still holds the six
\* faces and the six history entries it was captured with
C8_Witness ==
    /\ Validated
    /\ lastCall.ret.valid = FALSE
    /\ AllSet(cubeState)
    /\ Len(cubeState.captureHistory) = 6
    /\ \A i \in 1..6 :
           cubeState.state[cubeState.captureHistory[i].face] = cubeState.captureHistory[i].colors

\* C9: validateFace rejects every array whose length is not 9, and a missing array,
\* with the structural error: valid=false, no warning flag, no other check applied
\* (an array of 8 or 10 is neither padded nor truncated into an acceptable face).
C9_WrongLengthRejected ==
    (FaceValidated /\ (lastCall.arg = Null \/ Len(lastCall.arg) # 9)) =>
        lastCall.ret = [valid |-> FALSE, error |-> FaceLengthMsg]

\* C9 witness: an array of 10 detected stickers, none of them unknown and not all of
\* one colour, has been rejected
C9_Witness ==
    /\ FaceValidated
    /\ lastCall.arg # Null
    /\ Len(lastCall.arg) = 10
    /\ \A i \in 1..10 : lastCall.arg[i] # "unknown"
    /\ lastCall.arg[1] # lastCall.arg[2]
    /\ lastCall.ret.valid = FALSE

UnknownIn(colors) == Cardinality({i \in 1..Len(colors) : colors[i] = "unknown"})

\* C10: for a 9-sticker face with k >= 1 'unknown' stickers validateFace returns
\* valid=false with the warning flag set and a message reporting exactly k, also when
\* all 9 stickers are identical.
C10_UnknownStickersWarn ==
    (FaceValidated /\ lastCall.arg # Null /\ Len(lastCall.arg) = 9 /\ UnknownIn(lastCall.arg) >= 1) =>
        /\ lastCall.ret.valid = FALSE
        /\ DOMAIN lastCall.ret = {"valid", "error", "warning"}
        /\ lastCall.ret.warning = TRUE
        /\ lastCall.ret.error = FaceUndetectedMsg(UnknownIn(lastCall.arg))

\* C10 witness: a face of 9 identical stickers, all 'unknown', has been given the warning-class failure
C10_Witness ==
    /\ FaceValidated
    /\ lastCall.arg = [i \in 1..9 |-> "unknown"]
    /\ lastCall.ret.valid = FALSE
    /\ lastCall.ret.warning = TRUE

\* C11: for every 9-sticker face without 'unknown' stickers validateFace returns
\* valid=true; the result carries the same-colour warning exactly when the 9 stickers
\* are of one colour, and otherwise carries neither a warning nor an error.
C11_KnownFaceAcceptedWarnIffUniform ==
    (FaceValidated /\ lastCall.arg # Null /\ Len(lastCall.arg) = 9 /\ UnknownIn(lastCall.arg) = 0) =>
        /\ lastCall.ret.valid = TRUE
        /\ "error" \notin DOMAIN lastCall.ret
        /\ ("warning" \in DOMAIN lastCall.ret) <=> (\A i \in 1..9 : lastCall.arg[i] = lastCall.arg[1])
        /\ ("warning" \in DOMAIN lastCall.ret) => lastCall.ret.warning = SameColorMsg

\* C11 witness: a face of 9 known stickers of which exactly one differs from the first
\* has been accepted
C11_Witness ==
    /\ FaceValidated
    /\ lastCall.arg # Null
    /\ Len(lastCall.arg) = 9
    /\ UnknownIn(lastCall.arg) = 0
    /\ Cardinality({i \in 1..9 : lastCall.arg[i] # lastCall.arg[1]}) = 1
    /\ lastCall.ret.valid = TRUE

(***************************************************************************)
(* Properties of the colour detector.  The bands, scores and distances are *)
(* restated here from the band table and the reference points, apart from  *)
(* the loops of detectColor.                                               *)
(***************************************************************************)
StickerColors == KnownColors \cup {"unknown"}

Classified == lastCall.op = "detectColor"

Converted == lastCall.op = "rgbToHsv"

FaceDetected == lastCall.op = "detectFaceColors"

Between(lo, x, hi) == le(Whole(lo), x) /\ le(x, Whole(hi))

InRange(hsv) ==
    /\ le(Whole(0), hsv.h) /\ lt(hsv.h, Whole(360))
    /\ Between(0, hsv.s, 100)
    /\ Between(0, hsv.v, 100)

\* red's hue band is the two sub-ranges [0, 15] and [330, 360]
HueInBand(c, hsv) ==
    IF c = "red" THEN Between(0, hsv.h, 15) \/ Between(330, hsv.h, 360)
    ELSE Between(colorRanges[c].h[1], hsv.h, colorRanges[c].h[2])

SatInBand(c, hsv) == Between(colorRanges[c].s[1], hsv.s, colorRanges[c].s[2])

ValInBand(c, hsv) == Between(colorRanges[c].v[1], hsv.v, colorRanges[c].v[2])

BandScore(c, hsv) ==
    (IF HueInBand(c, hsv) THEN 100 ELSE 0) + (IF SatInBand(c, hsv) THEN 50 ELSE 0)
    + (IF ValInBand(c, hsv) THEN 50 ELSE 0)

BestScore(hsv) == CHOOSE m \in {BandScore(c, hsv) : c \in KnownColors} :
                      \A c \in KnownColors : BandScore(c, hsv) <= m

\* the position of a colour in the order white, yellow, red, orange, green, blue
Rank(c) ==
    CHOOSE i \in 1..6 : <<"white", "yellow", "red", "orange", "green", "blue">>[i] = c

\* min(|dh|, 360 - |dh|)
CircularDistance(h, center) ==
    LET d == absNum(sub(h, Whole(center)))
        e == sub(Whole(360), d)
    IN  IF lt(e, d) THEN e ELSE d

Square(x) == mul(x, x)

\* the square of the weighted distance: weights (0.1, 3.0, 0.5) for white and
\* (2.0, 1.0, 0.5) for the other colours
WeightedDistanceSquared(c, hsv) ==
    LET wH == IF c = "white" THEN Num(1, 10) ELSE Whole(2)
        wS == IF c = "white" THEN Whole(3) ELSE Whole(1)
        wV == Num(1, 2)
    IN  add(add(Square(mul(CircularDistance(hsv.h, colorCenters[c].h), wH)),
                Square(mul(sub(hsv.s, Whole(colorCenters[c].s)), wS))),
            Square(mul(sub(hsv.v, Whole(colorCenters[c].v)), wV)))

\* C12: detectColor is total on in-range HSV triples: it returns one of the seven
\* values of the StickerColor enumeration and nothing else.
C12_ClassifyTotal ==
    (Classified /\ InRange(lastCall.arg)) => lastCall.ret \in StickerColors

\* C12 witness: an in-range sample that no colour accepts in the range stage has been
\* classified
C12_Witness ==
    /\ Classified
    /\ InRange(lastCall.arg)
    /\ BestScore(lastCall.arg) < 150
    /\ lastCall.ret \in StickerColors

\* C13: 'unknown' is an observable result of detectColor: where the classifier is in
\* use, some in-range HSV triple (of the samples drawn) is classified 'unknown'.
C13_UnknownObservable ==
    Classified => \E hsv \in HsvSamples : InRange(hsv) /\ detectColor(hsv) = "unknown"

\* what the code does instead: no classification of an in-range sample is 'unknown'
ClassifiedNeverUnknown == (Classified /\ InRange(lastCall.arg)) => lastCall.ret # "unknown"

\* C14: whenever the best range score is below 150 the fallback returns a known colour
\* whose reference point is at minimum weighted distance from the sample, the hue
\* distance taken circularly; it never returns 'unknown'.
C14_FallbackReturnsNearest ==
    (Classified /\ BestScore(lastCall.arg) < 150) =>
        /\ lastCall.ret \in KnownColors
        /\ \A c \in KnownColors :
               le(WeightedDistanceSquared(lastCall.ret, lastCall.arg),
                  WeightedDistanceSquared(c, lastCall.arg))

\* C14 witness: a dark saturated sample of hue 300 has been classified by the fallback
\* as red, the nearest reference point across the 0/360 boundary
C14_Witness ==
    /\ Classified
    /\ BestScore(lastCall.arg) < 150
    /\ lastCall.arg.h = Whole(300)
    /\ lastCall.ret = "red"

\* C15: each colour scores 100 for hue in band, 50 for saturation in band and 50 for
\* value in band; when the best score is at least 150 detectColor returns the
\* highest-scoring colour, the earliest in the order white, yellow, red, orange, green,
\* blue on ties, and that colour has the hue in its band and saturation or value in band.
C15_RangeStageReturnsBest ==
    /\ Classified => \A c \in KnownColors : score(c, lastCall.arg) = BandScore(c, lastCall.arg)
    /\ (Classified /\ BestScore(lastCall.arg) >= 150) =>
        /\ lastCall.ret \in KnownColors
        /\ BandScore(lastCall.ret, lastCall.arg) = BestScore(lastCall.arg)
        /\ \A c \in KnownColors :
               Rank(c) < Rank(lastCall.ret) => BandScore(c, lastCall.arg) < BestScore(lastCall.arg)
        /\ HueInBand(lastCall.ret, lastCall.arg)
        /\ SatInBand(lastCall.ret, lastCall.arg) \/ ValInBand(lastCall.ret, lastCall.arg)

\* C15 witness: a sample on which two colours tie at the best score has been classified
C15_Witness ==
    /\ Classified
    /\ BestScore(lastCall.arg) >= 150
    /\ \E c \in KnownColors :
           /\ c # lastCall.ret
           /\ BandScore(c, lastCall.arg) = BestScore(lastCall.arg)

\* C16: converted and classified, pure white (255,255,255) is 'white' and pure red
\* (255,0,0) is 'red'; a fully saturated, full-value sample whose hue lies in [0, 15]
\* or in [330, 360] is 'red'.
C16_WhiteAndRedAcrossWrap ==
    /\ (Classified /\ pixel = [r |-> 255, g |-> 255, b |-> 255]) => lastCall.ret = "white"
    /\ (Classified /\ pixel = [r |-> 255, g |-> 0, b |-> 0]) => lastCall.ret = "red"
    /\ (Classified /\ lastCall.arg.s = Whole(100) /\ lastCall.arg.v = Whole(100)
           /\ (Between(0, lastCall.arg.h, 15) \/ Between(330, lastCall.arg.h, 360)))
        => lastCall.ret = "red"

\* C16 witness: a full sample of hue 345 has been classified as red
C16_Witness ==
    /\ Classified
    /\ lastCall.arg = [h |-> Whole(345), s |-> Whole(100), v |-> Whole(100)]
    /\ lastCall.ret = "red"

\* C17: for every RGB triple with r = g = b, (0,0,0) included, rgbToHsv returns hue 0
\* and saturation 0.
C17_GrayHasNoHueNoSaturation ==
    (Converted /\ lastCall.arg.r = lastCall.arg.g /\ lastCall.arg.g = lastCall.arg.b) =>
        /\ lastCall.ret.h = Whole(0)
        /\ lastCall.ret.s = Whole(0)

\* C17 witness: a mid gray has been converted
C17_Witness ==
    /\ Converted
    /\ lastCall.arg = [r |-> 128, g |-> 128, b |-> 128]
    /\ lastCall.ret.s = Whole(0)

\* C18: for every RGB triple of integers in [0, 255] rgbToHsv returns a hue in
\* [0, 360), never 360 and never negative, and saturation and value in [0, 100].
C18_HsvInRange == Converted => InRange(lastCall.ret)

\* C18 witness: a sample whose maximum channel is red and whose green is below its
\* blue has been converted to a hue between 300 and 360
C18_Witness ==
    /\ Converted
    /\ lastCall.arg.r > lastCall.arg.b
    /\ lastCall.arg.b > lastCall.arg.g
    /\ lt(Whole(300), lastCall.ret.h)
    /\ lt(lastCall.ret.h, Whole(360))

\* C19: detectFaceColors returns null for a frame of zero width or zero height, and
\* otherwise exactly 9 records in row-major order: the record at index i has position
\* (i div 3, i mod 3), index 4 being the centre (1, 1), holds the mean RGB sampled for
\* that cell, and its colour is detectColor of rgbToHsv of that RGB.
C19_NineCellsRowMajor ==
    FaceDetected =>
        IF video.videoWidth = 0 \/ video.videoHeight = 0
        THEN lastCall.ret = Null
        ELSE /\ Len(lastCall.ret) = 9
             /\ lastCall.ret[4 + 1].position = [row |-> 1, col |-> 1]
             /\ \A i \in 0..8 :
                    LET cell == lastCall.ret[i + 1]
                        rgb == video.cells[i \div 3][i % 3]
                    IN  /\ cell.position = [row |-> i \div 3, col |-> i % 3]
                        /\ cell.rgb = rgb
                        /\ cell.color = detectColor(rgbToHsv(rgb.r, rgb.g, rgb.b))

\* C19 witness: a frame showing white in cell (0, 1) and dark purple in cell (1, 0)
\* has been detected: index 1 is white and index 3 is red
C19_Witness ==
    /\ FaceDetected
    /\ video.videoWidth > 0
    /\ video.videoHeight > 0
    /\ video.cells[0][1] = [r |-> 255, g |-> 255, b |-> 255]
    /\ video.cells[1][0] = [r |-> 51, g |-> 0, b |-> 51]
    /\ lastCall.ret[1 + 1].color = "white"
    /\ lastCall.ret[3 + 1].color = "red"

NotationRead == lastCall.op = "getStateString"

NotationLetters == {"U", "D", "L", "R", "F", "B"}

\* the fixed colour-to-letter mapping
NotationLetter ==
    [white |-> "U", yellow |-> "D", red |-> "F", orange |-> "B", blue |-> "R", green |-> "L"]

\* C20: getStateString returns null for an incomplete cube; for a cube that passes
\* validate it returns 54 characters, the 9-character blocks being the faces U, R, F,
\* D, L, B in this order written with the fixed mapping, every character one of the
\* six letters and each letter occurring 9 times.
C20_NotationOfValidCube ==
    /\ (NotationRead /\ ~AllSet(cubeState)) => lastCall.ret = Null
    /\ (NotationRead /\ validate(cubeState).valid) =>
        /\ lastCall.ret # Null
        /\ Len(lastCall.ret) = 54
        /\ \A b \in 0..5 : \A j \in 1..9 :
               lastCall.ret[9 * b + j]
                   = NotationLetter[cubeState.state[<<"U", "R", "F", "D", "L", "B">>[b + 1]][j]]
        /\ \A i \in 1..54 : lastCall.ret[i] \in NotationLetters
        /\ \A l \in NotationLetters : Cardinality({i \in 1..54 : lastCall.ret[i] = l}) = 9

\* C20 witness: the notation of a cube that passes validate and is not solved (a face
\* shows two colours) has been read
C20_Witness ==
    /\ NotationRead
    /\ validate(cubeState).valid
    /\ \E k \in FaceKeys : cubeState.state[k][1] # cubeState.state[k][5]
    /\ Len(lastCall.ret) = 54

\* the range-scoring stage decides a sample: its best score is at least 150
RangeDecided(hsv) == rangeMatch(hsv, 1, noMatch).bestScore >= 150

C30_WhiteOnlyLowSaturation ==
    (Classified /\ InRange(lastCall.arg) /\ lastCall.ret = "white") =>
        /\ le(Whole(0), lastCall.arg.s)
        /\ le(lastCall.arg.s, Whole(40))

\* every face of the cube is set and sits in the slot of its centre colour
FiledByCentre(cs) ==
    \A k \in FaceKeys :
        /\ cs.state[k] # Null
        /\ Len(cs.state[k]) >= 5
        /\ cs.state[k][5] \in DOMAIN colorMap
        /\ colorMap[cs.state[k][5]] = k

\* C28: for a cube that passes validate and whose faces were filed by centre colour,
\* the centre character (the 5th of each 9-character block) of getStateString is the
\* letter of the face the block encodes, U, R, F, D, L, B in block order.
C28_CentreLetterIsFaceLetter ==
    (NotationRead /\ validate(cubeState).valid /\ FiledByCentre(cubeState)) =>
        /\ lastCall.ret # Null
        /\ \A b \in 0..5 : lastCall.ret[9 * b + 5] = <<"U", "R", "F", "D", "L", "B">>[b + 1]

(***************************************************************************)
(* The capture workflow and the page                                       *)
(***************************************************************************)
Captured == lastCall.op = "captureFace"

\* C21: in every state of the capture workflow every face slot that is set holds
\* exactly 9 stickers, as does every capture of the history; whenever the cube state
\* is complete, all 6 slots are set and each holds 9 stickers.
C21_SetSlotsHoldNine ==
    /\ \A k \in FaceKeys : cubeState.state[k] # Null => Len(cubeState.state[k]) = 9
    /\ \A i \in 1..Len(cubeState.captureHistory) :
           Len(cubeState.captureHistory[i].colors) = 9
    /\ isComplete(cubeState) =>
           \A k \in FaceKeys : cubeState.state[k] # Null /\ Len(cubeState.state[k]) = 9

\* C21 witness: the cube state is complete after a workflow in which a face was filed
\* in a slot of another centre colour, which takes a recapture or a reset
C21_Witness ==
    /\ isComplete(cubeState)
    /\ Captured
    /\ \E k \in FaceKeys : colorMap[cubeState.state[k][5]] # k

\* C22: a capture immediately followed by recaptureLastFace leaves the six face slots
\* and the capture history as they were before the capture, and the captured face as
\* the current face.
C22_RecaptureUndoesCapture ==
    [][(Captured /\ lastCall'.op = "recaptureLastFace") =>
           /\ lastCall'.ret
           /\ cubeState'.state = lastCall.before.state
           /\ cubeState'.captureHistory = lastCall.before.captureHistory
           /\ cubeState'.currentFace = lastCall.face]_vars

\* C23: cubeSolver.solve is called only while the cube state is complete, passes
\* validate, and the validation shown last was a success.
C23_SolveOnlyValidated ==
    [][(tasks'.solving < tasks.solving) =>
           /\ isComplete(cubeState)
           /\ validate(cubeState).valid
           /\ ui.validationResult = "success"]_vars

\* C24: while the polling has detected the centre colour of the face before the
\* camera, a capture of a face whose centre has the known colour c writes the slot
\* colorMap[c].
C24_CaptureFiledByCentre ==
    (/\ Captured
     /\ lastCall.colors[5] \in DOMAIN colorMap
     /\ lastCall.center = lastCall.colors[5]) =>
        lastCall.face = colorMap[lastCall.colors[5]]

\* the steps in which the callback of a polling interval triggers handleCaptureFace:
\* the interval's capture guard is set
AutoCaptureBy(i) == i \in tasks'.guards /\ i \notin tasks.guards

\* C25: whenever the polling callback triggers handleCaptureFace, the slot written by
\* the capture was unset immediately before, the stability counter is at least 5 and
\* isCapturing was false.
C25_AutoCaptureIntoUnsetSlot ==
    [][\A i \in 1..Len(tasks.intervals) :
           AutoCaptureBy(i) =>
               /\ ~ui.isCapturing
               /\ tasks'.intervals[i].stabilityCounter >= 5
               /\ Len(cubeState'.captureHistory) = Len(cubeState.captureHistory) + 1
               /\ LET capture == cubeState'.captureHistory[Len(cubeState'.captureHistory)]
                  IN  /\ cubeState.state[capture.face] = Null
                      /\ cubeState'.state[capture.face] = capture.colors
                      /\ \A k \in FaceKeys \ {capture.face} :
                             cubeState'.state[k] = cubeState.state[k]]_vars

\* C25 witness: an automatic capture has been triggered by a counter beyond the
\* threshold, the slot having been emptied while the face stayed before the camera,
\* with other slots filled
C25_Witness ==
    /\ Captured
    /\ lastCall.trigger.auto
    /\ lastCall.trigger.stabilityCounter > STABILITY_THRESHOLD
    /\ \E k \in FaceKeys : k # lastCall.face /\ lastCall.before.state[k] # Null

\* C26: at most one polling interval is active at any time.
C26_OnePollingTimer == Len(tasks.intervals) <= 1

\* C27: whenever the solution section becomes active for a complete cube that passes
\* validate, after a validation shown as a success and with no solve in progress, the
\* Solve button is not disabled.
C27_SolveAvailable ==
    [][(/\ ui'.currentSection = "solution"
        /\ ui.currentSection # "solution"
        /\ ui'.validationResult = "success"
        /\ tasks'.solving = 0
        /\ isComplete(cubeState')
        /\ validate(cubeState').valid) =>
           ~ui'.solveBtn.disabled]_vars

====
